---- MODULE Spec2Model ----
(***************************************************************************)
(* The MuSig2 signing service of the mpc crate (src/mpc/src/main.rs and    *)
(* src/mpc/src/db.rs) together with the backend's /send route that drives  *)
(* it (src/backend/src/routes/solana.rs).                                  *)
(*                                                                         *)
(* The service holds two MpcStore values, one per signer node, each backed *)
(* by its own database.  Cryptographic values are symbolic: a share key is *)
(* named by an integer, a nonce pair by an integer, and a signature records *)
(* which nonces, which keys and which message went into it, so that        *)
(* verification succeeds exactly when the Ed25519 equation would.          *)
(*                                                                         *)
(* The tss module (key_agg, step_one, step_two,                            *)
(* sign_and_broadcast_transaction) is declared in main.rs but its file is  *)
(* not part of the sources; it is modelled from section 4.2 of the         *)
(* specification.                                                          *)
(***************************************************************************)
EXTENDS Integers, Sequences, FiniteSets, TLC

\* ------------------------------------------------------------------------
\* Bounds of the model
\* ------------------------------------------------------------------------
\* ------------------------------------------------------------------------
\* Bounds of the model
\* ------------------------------------------------------------------------
MaxUsers == 1
MaxSessions == 1
MaxNonces == 3
MaxBlockhash == 1
MaxTicks == 1
MaxInflight == 1
MaxSubmitted == 1
MaxKeyList == 3
MaxResubmitted == 2
MaxConcurrentSessions == 2
MaxSignUps == 1
MaxRouteCalls == 1
MaxConcurrentCalls == 2

\* ------------------------------------------------------------------------
\* Program constants
\* ------------------------------------------------------------------------
\* db.rs:97  expires_at = Utc::now() + Duration::minutes(5); time is in minutes
SessionTtl == 5

\* AppState::get_mpc_store accepts node_id 1 and 2
Nodes == {1, 2}
\* node_id values a request may carry (3 stands for every id outside {1,2})
RequestNodeIds == {1, 2, 3}

\* Option<T>: None is the empty sequence, Some(x) the one-element sequence
None == <<>>
Some(x) == <<x>>

\* ------------------------------------------------------------------------
\* Symbolic curve points and keys
\* ------------------------------------------------------------------------
\* A share public key is the point of one secret scalar; an aggregate key is
\* the MuSig2 aggregate of a sorted list of share keys.
SharePub(id) == [agg |-> FALSE, keys |-> <<id>>]
\* a key pair whose secret no signer node holds
AttackerKey == SharePub(0)
\* the transfer's destination
RecipientKey == SharePub(100)

\* Keypair::new (main.rs:103-104): the two fresh key pairs of user u
KeyId(u, n) == 2 * (u - 1) + n
Keypair(u, n) == [public |-> SharePub(KeyId(u, n)), secret |-> KeyId(u, n)]

\* Keypair::new (routes/user.rs:42): the fresh key pair of the i-th sign-up
SignUpKeypair(i) == [public |-> SharePub(200 + i), secret |-> 200 + i]

RECURSIVE Insert(_, _)
Insert(x, s) ==
    IF s = <<>> THEN <<x>>
    ELSE IF x <= Head(s) THEN <<x>> \o s
    ELSE <<Head(s)>> \o Insert(x, Tail(s))

RECURSIVE SortBytes(_)
SortBytes(s) == IF s = <<>> THEN <<>> ELSE Insert(Head(s), SortBytes(Tail(s)))

\* Seeded fault: aggregation that takes the keys in the order given
key_agg_unsorted(pubkeys) ==
    [agg |-> TRUE, keys |-> [i \in 1..Len(pubkeys) |-> pubkeys[i].keys[1]]]

\* tss::key_agg (spec 4.2): sort the keys by byte order and aggregate them
key_agg(pubkeys) ==
    [agg |-> TRUE, keys |-> SortBytes([i \in 1..Len(pubkeys) |-> pubkeys[i].keys[1]])]

\* Pubkey::from_str on a stored address: Some(point) or None when malformed
ToAddresses == {"Bob", "not-base58"}
\* the placeholder address of /swap (solana.rs:154): the system program's id
SystemProgramAddress == "11111111111111111111111111111111"
SystemProgramKey == SharePub(101)
PubkeyFromStr(s) ==
    IF s = "Bob" THEN Some(RecipientKey)
    ELSE IF s = SystemProgramAddress THEN Some(SystemProgramKey)
    ELSE None

\* ------------------------------------------------------------------------
\* Amounts: the request's f64 number of SOL and its conversion to lamports
\* ------------------------------------------------------------------------
\* An amount is the decimal literal mant * 10^exp of the request's JSON, read
\* as the nearest IEEE-754 double.  The conversion below is that of the
\* doubles for |mant| <= 2000 and exp in AmountExponents.
SolAmount(mant, exp) == [mant |-> mant, exp |-> exp]
AmountExponents == ((0 - 12)..(0 - 9)) \cup (0..10)

\* A u64 as four 16-bit limbs, the most significant first
U64Limb == 65536
U64Max == <<65535, 65535, 65535, 65535>>
U64(n) == <<0, 0, n \div U64Limb, n % U64Limb>>

\* ten times a u64, and whether the product needs more than 64 bits
TimesTen(x) ==
    LET d4 == x[4] * 10
        d3 == x[3] * 10 + (d4 \div U64Limb)
        d2 == x[2] * 10 + (d3 \div U64Limb)
        d1 == x[1] * 10 + (d2 \div U64Limb)
    IN  [value |-> <<d1 % U64Limb, d2 % U64Limb, d3 % U64Limb, d4 % U64Limb>>,
         overflow |-> d1 \div U64Limb > 0]

\* x * 10^k as a u64; the cast `as u64` saturates at u64::MAX
RECURSIVE ScaleU64(_, _)
ScaleU64(x, k) ==
    IF k = 0 THEN x
    ELSE LET t == TimesTen(x)
         IN  IF t.overflow THEN U64Max ELSE ScaleU64(t.value, k - 1)

RECURSIVE Pow10(_)
Pow10(k) == IF k = 0 THEN 1 ELSE 10 * Pow10(k - 1)

\* The whole numbers n of lamports up to 2000 for which the double
\* nearest to n / 1e9, multiplied by the double 1e9, is less than n: the
\* product rounds to the double just below n and the cast truncates it to n-1.
InexactProducts ==
    {15, 30, 60, 63, 120, 126, 240, 245, 247, 252, 480, 483, 487, 490,
     494, 497, 504, 511, 957, 960, 963, 966, 974, 977, 980, 988, 991,
     994, 997, 1005, 1008, 1011, 1019, 1022, 1909, 1914, 1915, 1920,
     1926, 1931, 1932, 1937, 1943, 1948, 1954, 1959, 1960, 1965, 1971,
     1976, 1977, 1982, 1988, 1993, 1994, 1999}

\* (session.amount * 1e9) as u64 (main.rs:200, 253): the f64 product is
\* truncated towards zero, a negative value becomes 0 and a value of 2^64 or
\* more becomes u64::MAX
Lamports(amount) ==
    IF amount.mant <= 0 THEN U64(0)
    ELSE IF amount.exp >= 0
    THEN ScaleU64(U64(amount.mant), amount.exp + 9)
    ELSE LET unit == Pow10(0 - (amount.exp + 9))
             whole == amount.mant \div unit
         IN  U64(IF amount.mant % unit = 0 /\ whole \in InexactProducts
                 THEN whole - 1
                 ELSE whole)

\* req.amount as f64 / 1e9 (solana.rs:230): /send turns the request's whole
\* number of lamports into SOL; the quotient is the double nearest to n * 10^-9
SolOfLamports(n) == SolAmount(n, 0 - 9)

\* the amounts of the step1 requests: 15 lamports, as /send passes them on
Amounts == {SolOfLamports(15)}

Memos == {None}

\* ------------------------------------------------------------------------
\* tss: nonces, partial signatures, aggregation, verification (spec 4.2)
\* ------------------------------------------------------------------------
\* tss::step_one: nonce_gen with fresh randomness n, and the round-1 message
step_one(keypair, n) ==
    [agg_message |-> [sender |-> keypair.public, public_nonces |-> [R |-> n]],
     secret_state |-> [private_nonces |-> [r |-> n], public_nonces |-> [R |-> n]]]

\* public nonces made by the caller, who alone holds their private nonces
CallerNonce == 0
TamperedNonces == [R |-> CallerNonce]

\* The effective nonce R = R1 + b*R2 with b = H_non(X, R1, R2, message): it is
\* determined by the summed public nonces, the aggregate key and the message.
EffectiveNonce(all_nonces, aggkey, message) ==
    [nonces |-> SortBytes(all_nonces), agg |-> aggkey, msg |-> message]

\* tss::step_two = partial_sign: s_i = r_i1 + b*r_i2 + c*a_i*x_i
step_two(keypair, message, keys, first_messages, secret_state) ==
    LET others == [i \in 1..Len(first_messages) |-> first_messages[i].public_nonces.R]
        R == EffectiveNonce(<<secret_state.public_nonces.R>> \o others,
                            key_agg(keys), message)
    IN  IF \E i \in 1..Len(keys) : keys[i] = keypair.public
        THEN [ok |-> TRUE, err |-> "",
              sig |-> [R |-> R,
                       s |-> [rs |-> <<secret_state.private_nonces.r>>,
                              xs |-> <<keypair.secret>>]]]
        ELSE [ok |-> FALSE, err |-> "KeyPairIsNotInKeys",
              sig |-> [R |-> R, s |-> [rs |-> <<>>, xs |-> <<>>]]]

\* a value of the signature's shape that no signer produced, carrying nonce R
ForgedSignature(R) == [R |-> R, s |-> [rs |-> <<-1>>, xs |-> <<-1>>]]

\* the caller's own nonce share s = r_1 + b*r_2 for its nonces, with no key
\* share in it; R, b are computed from public values
NonceOnlySignature(R) == [R |-> R, s |-> [rs |-> <<CallerNonce>>, xs |-> <<>>]]

\* sig_agg: s = sum of the s_i
sig_agg(parts) ==
    [R |-> parts[1].R,
     s |-> [rs |-> SortBytes(parts[1].s.rs \o parts[2].s.rs),
            xs |-> SortBytes(parts[1].s.xs \o parts[2].s.xs)]]

\* Ed25519 verify(sig, X, M): s*G = R + H_sig(R, X, M)*X.  It holds exactly
\* when the nonces summed into s are those of R, the shares summed into s
\* are those aggregated in X, and the challenge was taken over X and M.
verify(sig, X, M) ==
    /\ sig.R.agg = X
    /\ sig.R.msg = M
    /\ sig.s.rs = sig.R.nonces
    /\ sig.s.xs = X.keys

\* system_instruction::transfer + Message::new(&[ix], Some(&payer)) with
\* recent_blockhash set
TransferMessage(from, to, lamports, payer, recent_blockhash) ==
    [payer |-> payer, from |-> from, to |-> to, lamports |-> lamports,
     recent_blockhash |-> recent_blockhash]

\* tss::sign_and_broadcast_transaction: aggregate, attach, verify
sign_and_broadcast_transaction(tx, keys, signatures) ==
    IF signatures[1].R # signatures[2].R
    THEN [ok |-> FALSE, err |-> "MismatchMessages", tx |-> tx]
    ELSE LET full == sig_agg(signatures)
             signed == [message |-> tx.message, signatures |-> Some(full)]
         IN  IF verify(full, tx.message.payer, tx.message)
             THEN [ok |-> TRUE, err |-> "", tx |-> signed]
             ELSE [ok |-> FALSE, err |-> "InvalidSignature", tx |-> signed]

\* ------------------------------------------------------------------------
\* State
\* ------------------------------------------------------------------------
VARIABLES
    keys,              \* keys[n]: rows of table mpc_keys in node n's database
    sessions,          \* sessions[n]: rows of mpc_signing_sessions in node n's database
    public_keys,       \* table public_keys of the main store
    users,             \* column public_key of table users of the main store
    next_user,         \* next fresh pair of key pairs drawn by generate
    next_signup,       \* next fresh key pair drawn by sign_up
    next_session,      \* next fresh Uuid::new_v4
    next_nonce,        \* next fresh nonce pair drawn by tss::step_one
    blockhash,         \* the ledger's latest blockhash
    now,               \* the clock, in minutes
    generating,        \* generate calls suspended at an await
    inflight,          \* step1, step2, combine and sign_up calls suspended at an await
    agg_messages,      \* every AggMessage1 a response has carried
    partial_sigs,      \* every PartialSignature a response has carried
    submitted,         \* transactions handed to send_and_confirm_transaction, each
                       \* tagged with the session it was built for
    resp,              \* the response on its way to the caller, with what the call did
    send,              \* the backend's /send route
    signed_with,       \* signed_with[n]: how often tss::step_two has signed with
                       \* private nonce n (counted up to two)
    combine_attempted  \* sessions loaded by aggregate_signatures_broadcast

vars == <<keys, sessions, public_keys, users, next_user, next_signup, next_session,
          next_nonce, blockhash, now, generating, inflight, agg_messages,
          partial_sigs, submitted, resp, send, signed_with, combine_attempted>>

\* the tables of the main store, and the sources of fresh values
main_store == <<public_keys, users>>
fresh == <<next_user, next_signup, next_session, next_nonce>>
\* the clock and the ledger's head
environment == <<blockhash, now>>
\* what responses have released
released == <<agg_messages, partial_sigs>>

\* what a response leaves untouched unless the handler says otherwise
NoResponse ==
    [op |-> "none", node_id |-> 0, session_id |-> 0, result |-> "none",
     agg_message |-> None, partial_signature |-> None,
     transaction_signature |-> None, generated |-> None,
     request_sender |-> None, found |-> FALSE, was_finalized |-> FALSE,
     after_combine |-> FALSE, loaded_at |-> 0, after_submission |-> FALSE,
     pubkeys |-> None, key_missing |-> FALSE, request_transaction |-> None,
     aggregated_pubkey |-> None,
     signed |-> FALSE, message |-> None, tss |-> "none", fault |-> FALSE]

SendIdle ==
    [pc |-> "idle", route |-> "none", calls |-> 0, fault |-> FALSE,
     end_user_pubkey |-> None, session_id |-> 0,
     agg_message_1 |-> None,
     partial_signature_2 |-> None, agg_message_2 |-> None, signature |-> None]

Init ==
    /\ keys = [n \in Nodes |-> {}]
    /\ sessions = [n \in Nodes |-> {}]
    /\ public_keys = {}
    /\ users = {}
    /\ next_user = 1
    /\ next_signup = 1
    /\ next_session = 1
    /\ next_nonce = 1
    /\ blockhash = 0
    /\ now = 0
    /\ generating = {}
    /\ inflight = {}
    /\ agg_messages = {}
    /\ partial_sigs = {}
    /\ submitted = <<>>
    /\ resp = NoResponse
    /\ send = SendIdle
    /\ signed_with = [n \in 1..MaxNonces |-> 0]
    /\ combine_attempted = {}

\* ------------------------------------------------------------------------
\* MpcStore (db.rs)
\* ------------------------------------------------------------------------
\* Seeded fault: every node_id is served from the first store
get_first_mpc_store(tables, node_id) == tables[1]

\* AppState::get_mpc_store (main.rs:89-97): the tables of the store that
\* node_id selects; the handlers call it for node_id 1 and 2 only
get_mpc_store(tables, node_id) == tables[node_id]

\* MpcStore::store_key: INSERT INTO mpc_keys
store_key(table, key) == table \cup {key}

\* MpcStore::get_key: WHERE end_user_pubkey = $1 AND node_id = $2, fetch_one
get_key(table, end_user_pubkey, node_id) ==
    LET rows == {k \in table : k.end_user_pubkey = end_user_pubkey /\ k.node_id = node_id}
    IN  IF rows = {} THEN None ELSE Some(CHOOSE k \in rows : TRUE)

\* MpcStore::get_keys_for_user: WHERE end_user_pubkey = $1 ORDER BY node_id
get_keys_for_user(table, end_user_pubkey) ==
    LET row(n) == {k \in table : k.end_user_pubkey = end_user_pubkey /\ k.node_id = n}
        one(n) == IF row(n) = {} THEN <<>> ELSE <<CHOOSE k \in row(n) : TRUE>>
    IN  one(1) \o one(2)

\* Seeded fault: create_session that does not persist the private nonces
create_session_without_nonces(session_id, end_user_pubkey, secret_state_1, to_address, amount, memo, transaction, clock) ==
    [session_id |-> session_id, end_user_pubkey |-> end_user_pubkey,
     secret_state_1 |-> None, secret_state_2 |-> None,
     partial_sig_2 |-> None, agg_message_2 |-> None,
     to_address |-> to_address, amount |-> amount, memo |-> memo,
     transaction |-> transaction, expires_at |-> clock + SessionTtl]

\* MpcStore::create_session: the row inserted for a fresh session_id
create_session(session_id, end_user_pubkey, secret_state_1, to_address, amount, memo, transaction, clock) ==
    [session_id |-> session_id, end_user_pubkey |-> end_user_pubkey,
     secret_state_1 |-> Some(secret_state_1), secret_state_2 |-> None,
     partial_sig_2 |-> None, agg_message_2 |-> None,
     to_address |-> to_address, amount |-> amount, memo |-> memo,
     transaction |-> transaction, expires_at |-> clock + SessionTtl]

\* Seeded fault: an UPDATE that also overwrites the first-round nonces
update_session_overwriting_step1(table, session_id, secret_state_2, partial_sig_2, agg_message_2) ==
    {IF s.session_id = session_id
     THEN [s EXCEPT !.secret_state_1 = Some(secret_state_2),
                    !.secret_state_2 = Some(secret_state_2),
                    !.partial_sig_2 = Some(partial_sig_2),
                    !.agg_message_2 = Some(agg_message_2)]
     ELSE s : s \in table}

\* Seeded fault: an UPDATE without its WHERE clause
update_every_session(table, session_id, secret_state_2, partial_sig_2, agg_message_2) ==
    {[s EXCEPT !.secret_state_2 = Some(secret_state_2),
               !.partial_sig_2 = Some(partial_sig_2),
               !.agg_message_2 = Some(agg_message_2)] : s \in table}

\* MpcStore::update_session_with_step2_data: UPDATE ... WHERE session_id = $4
update_session_with_step2_data(table, session_id, secret_state_2, partial_sig_2, agg_message_2) ==
    {IF s.session_id = session_id
     THEN [s EXCEPT !.secret_state_2 = Some(secret_state_2),
                    !.partial_sig_2 = Some(partial_sig_2),
                    !.agg_message_2 = Some(agg_message_2)]
     ELSE s : s \in table}

\* Seeded fault: get_session that still returns a row at its expiry instant
get_session_until_expiry(table, session_id, clock) ==
    LET rows == {s \in table : s.session_id = session_id /\ s.expires_at >= clock}
    IN  IF rows = {} THEN None ELSE Some(CHOOSE s \in rows : TRUE)

\* MpcStore::get_session: WHERE session_id = $1 AND expires_at > NOW()
get_session(table, session_id, clock) ==
    LET rows == {s \in table : s.session_id = session_id /\ s.expires_at > clock}
    IN  IF rows = {} THEN None ELSE Some(CHOOSE s \in rows : TRUE)

\* Keypair::from_bytes(bs58::decode(key.private_key)) of a stored key row
KeypairOf(key) == [public |-> key.public_key, secret |-> key.private_key]

\* the public keys of the rows, as the handlers collect them
PubkeysOf(rows) == [i \in 1..Len(rows) |-> rows[i].public_key]


\* ------------------------------------------------------------------------
\* Requests, suspended calls and responses
\* ------------------------------------------------------------------------
\* Every handler is an async function: it runs up to an awaited database
\* statement, is suspended, and is resumed when the statement has been
\* executed.  One step of a handler is one awaited statement together with
\* the synchronous code that follows it up to the next await (for the first
\* step, also the code before it).  Between two steps of a call the clock,
\* the ledger and other calls may move.
Response(op, node_id, session_id, result) ==
    [NoResponse EXCEPT !.op = op, !.node_id = node_id, !.session_id = session_id,
                       !.result = result]

\* an error produced by an injected database or ledger failure
Fault(op, node_id, session_id, result) ==
    [Response(op, node_id, session_id, result) EXCEPT !.fault = TRUE]

\* a call suspended at pc, with the locals it holds; seen is what the call
\* has observed so far and becomes its response; caller_messages and
\* caller_signatures are the values that responses had released when the
\* request was sent, of which the members of the request are made
Activation(kind, client, pc, seen) ==
    [kind |-> kind, client |-> client, pc |-> pc, seen |-> seen,
     session |-> None, keypair |-> None, one |-> None, row |-> None,
     keys_from_db |-> <<>>, partial_signature |-> None, tx |-> None,
     caller_messages |-> agg_messages, caller_signatures |-> partial_sigs]

\* the backend routes that run the signing sequence (solana.rs:120-287)
Routes == {"send", "swap"}

\* Responses are observed one at a time: a step is taken when the previous
\* response has been taken by its caller.
Ready == resp.op = "none"

\* what /send does with the answer to one of its requests (solana.rs:234-284):
\* it unwraps the members of the answer it needs, and is aborted by the
\* panic when the answer is an error
SendAfter(route, answer) ==
    IF answer.result # "Ok"
    THEN [route EXCEPT !.pc = "failed", !.fault = answer.fault]
    ELSE IF answer.op = "step1"
    THEN [route EXCEPT !.pc = "step2",
                       !.session_id = answer.session_id,
                       !.agg_message_1 = answer.agg_message]
    ELSE IF answer.op = "step2"
    THEN [route EXCEPT !.pc = "combine",
                       !.partial_signature_2 = answer.partial_signature,
                       !.agg_message_2 = answer.agg_message]
    ELSE [route EXCEPT !.pc = "done", !.signature = answer.transaction_signature]

\* the answer goes to the caller of the request
Reply(client, answer) ==
    IF client \in Routes /\ answer.op # "none" THEN SendAfter(send, answer) ELSE send

\* the caller takes the response
Receive ==
    /\ resp.op # "none"
    /\ resp' = NoResponse
    /\ UNCHANGED <<keys, sessions, main_store, fresh, environment, generating,
                   inflight, released, submitted, send, signed_with,
                   combine_attempted>>

\* ------------------------------------------------------------------------
\* generate (main.rs:99-136)
\* ------------------------------------------------------------------------
\* main.rs:103-124: the key pairs, the aggregate key and the two MpcKey rows
NewUser(u) ==
    LET kp1 == Keypair(u, 1)
        kp2 == Keypair(u, 2)
        pubkeys == <<kp1.public, kp2.public>>
        end_user_pubkey == key_agg(pubkeys)
    IN  [end_user_pubkey |-> end_user_pubkey,
         node1_pubkey |-> kp1.public,
         node2_pubkey |-> kp2.public,
         mpc_key1 |-> [end_user_pubkey |-> end_user_pubkey, node_id |-> 1,
                       public_key |-> kp1.public, private_key |-> kp1.secret],
         mpc_key2 |-> [end_user_pubkey |-> end_user_pubkey, node_id |-> 2,
                       public_key |-> kp2.public, private_key |-> kp2.secret]]

\* Seeded fault: every share is written through node 1's store
StoreShareInFirstStore(tables, node_id, mpc_key, db_fail) ==
    IF db_fail THEN tables
    ELSE [tables EXCEPT ![1] = store_key(tables[1], mpc_key)]

\* mpc_store_n.store_key(&mpc_key_n).await? (main.rs:126, 127): the row goes
\* to the store of its node; a failing statement writes nothing
StoreShare(tables, node_id, mpc_key, db_fail) ==
    IF db_fail THEN tables
    ELSE [tables EXCEPT ![node_id] = store_key(get_mpc_store(tables, node_id), mpc_key)]

GenerateFrame ==
    UNCHANGED <<sessions, users, next_signup, next_session, next_nonce,
                environment, inflight, released, submitted, send, signed_with,
                combine_attempted>>

\* main.rs:102-126: up to and including the INSERT into node 1's store
GenerateStoreKey1 ==
    \E db_fail \in BOOLEAN :
        /\ Ready
        /\ next_user <= MaxUsers
        /\ keys' = StoreShare(keys, 1, NewUser(next_user).mpc_key1, db_fail)
        /\ IF db_fail
           THEN /\ resp' = Fault("generate", 0, 0, "DatabaseError")
                /\ UNCHANGED <<generating, next_user>>
           ELSE /\ generating' = generating \cup {[pc |-> "store_key_2",
                                                   user |-> next_user]}
                /\ next_user' = next_user + 1
                /\ UNCHANGED resp
        /\ UNCHANGED public_keys
        /\ GenerateFrame

\* main.rs:127: the INSERT into node 2's store
GenerateStoreKey2 ==
    \E g \in generating, db_fail \in BOOLEAN :
        /\ Ready
        /\ g.pc = "store_key_2"
        /\ keys' = StoreShare(keys, 2, NewUser(g.user).mpc_key2, db_fail)
        /\ IF db_fail
           THEN /\ resp' = Fault("generate", 0, 0, "DatabaseError")
                /\ generating' = generating \ {g}
           ELSE /\ generating' = (generating \ {g})
                                     \cup {[g EXCEPT !.pc = "add_public_key"]}
                /\ UNCHANGED resp
        /\ UNCHANGED <<public_keys, next_user>>
        /\ GenerateFrame

\* main.rs:129-135: add_public_key(..).await.unwrap() and the response
GenerateAddPublicKey ==
    \E g \in generating, db_fail \in BOOLEAN :
        /\ Ready
        /\ g.pc = "add_public_key"
        /\ generating' = generating \ {g}
        /\ LET user == NewUser(g.user)
           IN  IF db_fail
               THEN /\ resp' = Fault("generate", 0, 0, "panic")
                    /\ UNCHANGED public_keys
               ELSE /\ public_keys' = public_keys \cup {user.end_user_pubkey}
                    /\ resp' = [Response("generate", 0, 0, "Ok") EXCEPT
                                  !.generated =
                                      Some([end_user_pubkey |-> user.end_user_pubkey,
                                            node1_pubkey |-> user.node1_pubkey,
                                            node2_pubkey |-> user.node2_pubkey])]
        /\ UNCHANGED <<keys, next_user>>
        /\ GenerateFrame

\* ------------------------------------------------------------------------
\* agg_send_step1 (main.rs:150-171)
\* ------------------------------------------------------------------------
\* main.rs:154-167 and db.rs:95-97: get_mpc_store, the SELECT of get_key,
\* then step_one, the fresh session id and the reading of the clock, up to
\* the INSERT of create_session
Step1GetKey(client, node_id, end_user_pubkey, to, amount, memo, transaction, db_fail) ==
    IF node_id \notin Nodes
    THEN /\ resp' = Response("step1", node_id, 0, "InvalidRequest")
         /\ UNCHANGED <<inflight, next_session, next_nonce>>
    ELSE IF db_fail
    THEN /\ resp' = Fault("step1", node_id, 0, "DatabaseError")
         /\ UNCHANGED <<inflight, next_session, next_nonce>>
    ELSE LET key == get_key(get_mpc_store(keys, node_id), end_user_pubkey, node_id)
         IN  IF key = None
             THEN \* fetch_one's RowNotFound becomes Error::DatabaseError through `?`
                  /\ resp' = [Response("step1", node_id, 0, "DatabaseError")
                                 EXCEPT !.key_missing = TRUE]
                  /\ UNCHANGED <<inflight, next_session, next_nonce>>
             ELSE LET one == step_one(KeypairOf(key[1]), next_nonce)
                      row == create_session(next_session, end_user_pubkey,
                                            one.secret_state, to, amount, memo,
                                            None, now)
                      seen == [Response("step1", node_id, next_session, "none")
                                  EXCEPT !.request_transaction = transaction,
                                         !.loaded_at = now]
                  IN  /\ next_nonce <= MaxNonces
                      /\ next_nonce' = next_nonce + 1
                      /\ next_session' = next_session + 1
                      /\ inflight' = inflight \cup
                            {[Activation("step1", client, "insert", seen)
                                 EXCEPT !.keypair = Some(KeypairOf(key[1])),
                                        !.one = Some(one),
                                        !.row = Some(row)]}
                      /\ UNCHANGED resp

\* db.rs:99-117 and main.rs:168-170: the INSERT, then the response
Step1Insert ==
    \E act \in inflight, db_fail \in BOOLEAN :
        /\ Ready
        /\ act.kind = "step1" /\ act.pc = "insert"
        /\ LET node_id == act.seen.node_id
               answer == IF db_fail
                         THEN [act.seen EXCEPT !.result = "DatabaseError",
                                               !.session_id = 0,
                                               !.fault = TRUE]
                         ELSE [act.seen EXCEPT
                                  !.result = "Ok",
                                  !.agg_message = Some(act.one[1].agg_message)]
           IN  /\ inflight' = inflight \ {act}
               /\ resp' = answer
               /\ send' = Reply(act.client, answer)
               /\ IF db_fail
                  THEN UNCHANGED <<sessions, agg_messages>>
                  ELSE /\ sessions' = [sessions EXCEPT
                                          ![node_id] = sessions[node_id] \cup {act.row[1]}]
                       /\ agg_messages' = agg_messages \cup {act.one[1].agg_message}
        /\ UNCHANGED <<keys, main_store, fresh, environment, generating,
                       partial_sigs, submitted, signed_with, combine_attempted>>

\* The "transaction" member that /swap puts into its step1 request
\* (solana.rs:151-157): a transaction built elsewhere, or absent.
\* AggSendStep1Request (main.rs:42-49) has no such field, so the member is
\* dropped when the request is deserialised.
PrebuiltTransaction ==
    [message |-> TransferMessage(AttackerKey, RecipientKey, U64(7), AttackerKey, 0),
     signatures |-> None]
RequestTransactions == {None, Some(PrebuiltTransaction)}

\* what the first step of a signing request leaves alone
BeginFrame ==
    UNCHANGED <<keys, sessions, main_store, next_user, next_signup, environment,
                generating, released, submitted, signed_with>>

\* the users a caller can name: those of the key tables, and one nobody generated
UserKeys ==
    {k.end_user_pubkey : k \in keys[1] \cup keys[2]} \cup {key_agg(<<AttackerKey>>)}

\* A request field that the handler does not read on the path it takes is
\* given one representative value.
Step1ReachesInsert(node_id, end_user_pubkey, db_fail) ==
    /\ node_id \in Nodes
    /\ ~db_fail
    /\ get_key(keys[node_id], end_user_pubkey, node_id) # None

\* step1 requests of any caller, while fewer than cap sessions were created
\* and fewer than workers calls are suspended; the SELECT of get_key
\* is awaited, and can fail, whenever the node id is accepted
EnvStep1UpTo(cap, workers) ==
    /\ Ready
    /\ Cardinality(inflight) < workers
    /\ next_session <= cap
    /\ \E node_id \in RequestNodeIds, end_user_pubkey \in UserKeys,
          db_fail \in BOOLEAN :
          /\ db_fail => node_id \in Nodes
          /\ IF Step1ReachesInsert(node_id, end_user_pubkey, db_fail)
             THEN \E to \in ToAddresses, amount \in Amounts, memo \in Memos,
                     transaction \in RequestTransactions :
                     Step1GetKey("env", node_id, end_user_pubkey, to, amount, memo,
                                 transaction, db_fail)
             ELSE Step1GetKey("env", node_id, end_user_pubkey, "Bob",
                              SolOfLamports(15), None, None, db_fail)
    /\ BeginFrame
    /\ UNCHANGED <<send, combine_attempted>>

EnvStep1 == EnvStep1UpTo(MaxSessions, MaxInflight)

\* ------------------------------------------------------------------------
\* What a caller can put into a request
\* ------------------------------------------------------------------------
\* released round-1 messages, also with the sender or the nonces replaced
RequestMessages(known) ==
    known
    \cup {[m EXCEPT !.sender = AttackerKey] : m \in known}
    \cup {[m EXCEPT !.public_nonces = TamperedNonces] : m \in known}

\* released partial signatures; None stands for a value the caller computes
\* itself, carrying the nonce R that the combining node will compute
RequestSignatures(known) == {Some(p) : p \in known} \cup {None}

\* what the caller computes itself: arbitrary bytes, or its own nonce share
CallerSignatures == {"forged", "nonce_only"}

\* the session ids a caller can name: those created, and one never created
RequestSessionIds == 1..next_session

\* a message standing for the member of a request that is not read
AnyMessage == [sender |-> AttackerKey, public_nonces |-> TamperedNonces]

\* A member of the request that a handler reads only in a later step is
\* chosen in that step, among the values the caller had when it sent the
\* request.
Step2Messages(act) ==
    IF act.client \in Routes THEN {send.agg_message_1[1]}
    ELSE RequestMessages(act.caller_messages)

CombineSignatures(act) ==
    IF act.client \in Routes THEN {send.partial_signature_2}
    ELSE RequestSignatures(act.caller_signatures)

CombineMessages(act) ==
    IF act.client \in Routes THEN {send.agg_message_2[1]}
    ELSE RequestMessages(act.caller_messages)

\* a combine call on the session has reached send_and_confirm_transaction
WasSubmitted(session_id) ==
    \E i \in 1..Len(submitted) : submitted[i].session_id = session_id

\* tss::step_two was run with the private nonces of secret_state and signed
UseNonce(secret_state) ==
    [signed_with EXCEPT ![secret_state.private_nonces.r] = IF @ < 2 THEN @ + 1 ELSE @]

\* ------------------------------------------------------------------------
\* agg_send_step2 (main.rs:173-224)
\* ------------------------------------------------------------------------
\* main.rs:177-178: get_mpc_store and the SELECT of get_session
Step2GetSession(client, session_id, node_id, db_fail) ==
    IF node_id \notin Nodes
    THEN /\ resp' = Response("step2", node_id, session_id, "InvalidRequest")
         /\ UNCHANGED inflight
    ELSE IF db_fail
    THEN /\ resp' = [Fault("step2", node_id, session_id, "DatabaseError")
                        EXCEPT !.loaded_at = now]
         /\ UNCHANGED inflight
    ELSE LET loaded == get_session(get_mpc_store(sessions, node_id), session_id, now)
         IN  IF loaded = None
             THEN /\ resp' = [Response("step2", node_id, session_id, "SessionNotFound")
                                 EXCEPT !.loaded_at = now]
                  /\ UNCHANGED inflight
             ELSE LET session == loaded[1]
                      seen == [Response("step2", node_id, session_id, "none") EXCEPT
                                  !.found = TRUE,
                                  !.loaded_at = now,
                                  !.after_submission = WasSubmitted(session_id),
                                  !.was_finalized = (session.partial_sig_2 # None),
                                  !.after_combine = (session_id \in combine_attempted)]
                  IN  /\ inflight' = inflight \cup
                            {[Activation("step2", client, "get_key", seen)
                                 EXCEPT !.session = Some(session)]}
                      /\ UNCHANGED resp

\* step2 requests of any caller, while the server has a worker free; the
\* SELECT of get_session is awaited, and can fail, whenever the node id is
\* accepted
EnvStep2 ==
    /\ Ready
    /\ Cardinality(inflight) < MaxInflight
    /\ \E session_id \in RequestSessionIds, node_id \in RequestNodeIds,
          db_fail \in BOOLEAN :
          /\ db_fail => node_id \in Nodes
          /\ (node_id \in Nodes /\ ~db_fail
                 /\ get_session(sessions[node_id], session_id, now) # None)
                => next_nonce <= MaxNonces
          /\ Step2GetSession("env", session_id, node_id, db_fail)
    /\ BeginFrame
    /\ UNCHANGED <<next_session, next_nonce, send, combine_attempted>>

\* main.rs:179-182: the SELECT of get_key, then Keypair::from_bytes and step_one
Step2GetKey ==
    \E act \in inflight, db_fail \in BOOLEAN :
        /\ Ready
        /\ act.kind = "step2" /\ act.pc = "get_key"
        /\ LET node_id == act.seen.node_id
               session == act.session[1]
               key == get_key(get_mpc_store(keys, node_id),
                              session.end_user_pubkey, node_id)
           IN  IF db_fail
               THEN /\ resp' = [act.seen EXCEPT !.result = "DatabaseError",
                                                !.fault = TRUE]
                    /\ inflight' = inflight \ {act}
                    /\ UNCHANGED next_nonce
               ELSE IF key = None
               THEN /\ resp' = [act.seen EXCEPT !.result = "DatabaseError",
                                                !.key_missing = TRUE]
                    /\ inflight' = inflight \ {act}
                    /\ UNCHANGED next_nonce
               ELSE /\ next_nonce <= MaxNonces
                    /\ next_nonce' = next_nonce + 1
                    /\ inflight' = (inflight \ {act}) \cup
                          {[act EXCEPT !.pc = "get_keys_for_user",
                                       !.keypair = Some(KeypairOf(key[1])),
                                       !.one = Some(step_one(KeypairOf(key[1]),
                                                             next_nonce))]}
                    /\ UNCHANGED resp
        /\ send' = Reply(act.client, resp')
        /\ UNCHANGED <<keys, sessions, main_store, next_user, next_signup,
                       next_session, environment, generating, released, submitted,
                       signed_with, combine_attempted>>

\* main.rs:184-190: the SELECT of get_keys_for_user and the list of the
\* share keys it returned
Step2GetKeys ==
    \E act \in inflight, db_fail \in BOOLEAN :
        /\ Ready
        /\ act.kind = "step2" /\ act.pc = "get_keys_for_user"
        /\ IF db_fail
           THEN /\ resp' = [act.seen EXCEPT !.result = "DatabaseError",
                                            !.fault = TRUE]
                /\ inflight' = inflight \ {act}
           ELSE /\ inflight' = (inflight \ {act}) \cup
                      {[act EXCEPT
                           !.pc = "get_latest_blockhash",
                           !.keys_from_db =
                               get_keys_for_user(
                                   get_mpc_store(keys, act.seen.node_id),
                                   act.session[1].end_user_pubkey)]}
                /\ UNCHANGED resp
        /\ send' = Reply(act.client, resp')
        /\ UNCHANGED <<keys, sessions, main_store, fresh, environment, generating,
                       released, submitted, signed_with, combine_attempted>>

\* main.rs:191-212: the call of the ledger for its latest blockhash, which
\* blocks the worker until it is answered, then the message and the partial
\* signature, up to the UPDATE
Step2BuildAndSign(act, agg_message_1, rpc_fail) ==
    LET node_id == act.seen.node_id
        session == act.session[1]
        keypair == act.keypair[1]
        agg_message_2 == act.one[1].agg_message
        secret_state_2 == act.one[1].secret_state
        keys_from_db == act.keys_from_db
        pubkeys == PubkeysOf(keys_from_db)
        recent_blockhash == blockhash
        to_pubkey == PubkeyFromStr(session.to_address)
        own_rows == {k \in {keys_from_db[i] : i \in 1..Len(keys_from_db)} :
                        k.node_id = node_id}
        from_pubkey == (CHOOSE k \in own_rows : TRUE).public_key
        message ==
            IF session.transaction # None
            THEN session.transaction[1].message
            ELSE TransferMessage(from_pubkey, to_pubkey[1],
                                 Lamports(session.amount),
                                 from_pubkey, recent_blockhash)
        signing == step_two(keypair, message, pubkeys,
                            <<agg_message_1>>, secret_state_2)
        read == [act.seen EXCEPT !.request_sender = Some(agg_message_1.sender),
                                 !.pubkeys = Some(pubkeys),
                                 !.message = Some(message)]
    IN  IF rpc_fail
        THEN /\ resp' = [act.seen EXCEPT !.result = "SolanaClientError",
                                         !.fault = TRUE]
             /\ inflight' = inflight \ {act}
             /\ UNCHANGED signed_with
        ELSE IF session.transaction = None /\ (to_pubkey = None \/ own_rows = {})
        THEN /\ resp' = [act.seen EXCEPT !.result = "panic"]
             /\ inflight' = inflight \ {act}
             /\ UNCHANGED signed_with
        ELSE IF ~signing.ok
        THEN /\ resp' = [read EXCEPT !.result = "panic", !.tss = signing.err]
             /\ inflight' = inflight \ {act}
             /\ UNCHANGED signed_with
        ELSE /\ inflight' = (inflight \ {act}) \cup
                   {[act EXCEPT !.pc = "update",
                                !.partial_signature = Some(signing.sig),
                                !.seen = [read EXCEPT !.signed = TRUE]]}
             /\ signed_with' = UseNonce(secret_state_2)
             /\ UNCHANGED resp

Step2Sign ==
    \E act \in inflight, rpc_fail \in BOOLEAN :
        /\ Ready
        /\ act.kind = "step2" /\ act.pc = "get_latest_blockhash"
        /\ \E agg_message_1 \in (IF rpc_fail THEN {AnyMessage}
                                 ELSE Step2Messages(act)) :
              Step2BuildAndSign(act, agg_message_1, rpc_fail)
        /\ send' = Reply(act.client, resp')
        /\ UNCHANGED <<keys, sessions, main_store, fresh, environment, generating,
                       released, submitted, combine_attempted>>

\* Seeded fault: a response whose round-1 message carries other public nonces
Step2ResponseWithOtherNonces(seen, partial_signature, agg_message_2) ==
    [seen EXCEPT !.result = "Ok",
                 !.partial_signature = Some(partial_signature),
                 !.agg_message = Some([agg_message_2 EXCEPT
                                          !.public_nonces = TamperedNonces])]

\* Seeded fault: the UPDATE is applied although the call fails
RecordStep2ThenFail(db_fail, table, session_id, secret_state_2, partial_sig_2, agg_message_2) ==
    update_session_with_step2_data(table, session_id, secret_state_2,
                                   partial_sig_2, agg_message_2)

\* the handler's one write (main.rs:214-221): the UPDATE, or no change when
\* the statement fails and `?` returns the error
RecordStep2(db_fail, table, session_id, secret_state_2, partial_sig_2, agg_message_2) ==
    IF db_fail
    THEN table
    ELSE update_session_with_step2_data(table, session_id, secret_state_2,
                                        partial_sig_2, agg_message_2)

\* Seeded fault: a response that serialises the secret state of the round
Step2ResponseWithSecretState(seen, partial_signature, agg_message_2) ==
    [seen EXCEPT !.result = "Ok",
                 !.partial_signature = Some(partial_signature),
                 !.agg_message = Some([sender |-> agg_message_2.sender,
                                       public_nonces |-> agg_message_2.public_nonces,
                                       private_nonces |->
                                           [r |-> agg_message_2.public_nonces.R]])]

\* AggSendStep2Response { partial_signature, agg_message_2 } (main.rs:223)
Step2Response(seen, partial_signature, agg_message_2) ==
    [seen EXCEPT !.result = "Ok",
                 !.partial_signature = Some(partial_signature),
                 !.agg_message = Some(agg_message_2)]

\* main.rs:214-223: the UPDATE, then the response
Step2Finish ==
    \E act \in inflight, db_fail \in BOOLEAN :
        /\ Ready
        /\ act.kind = "step2" /\ act.pc = "update"
        /\ LET node_id == act.seen.node_id
               session_id == act.seen.session_id
               partial_signature == act.partial_signature[1]
               agg_message_2 == act.one[1].agg_message
               secret_state_2 == act.one[1].secret_state
               answer == IF db_fail
                         THEN [act.seen EXCEPT !.result = "DatabaseError",
                                               !.fault = TRUE]
                         ELSE Step2Response(act.seen, partial_signature,
                                            agg_message_2)
           IN  /\ inflight' = inflight \ {act}
               /\ resp' = answer
               /\ sessions' = [sessions EXCEPT ![node_id] =
                                  RecordStep2(db_fail, sessions[node_id], session_id,
                                              secret_state_2, partial_signature,
                                              agg_message_2)]
               /\ IF db_fail
                  THEN UNCHANGED <<agg_messages, partial_sigs>>
                  ELSE /\ agg_messages' = agg_messages \cup {agg_message_2}
                       /\ partial_sigs' = partial_sigs \cup {partial_signature}
               /\ send' = Reply(act.client, answer)
        /\ UNCHANGED <<keys, main_store, fresh, environment, generating,
                       submitted, signed_with, combine_attempted>>

\* ------------------------------------------------------------------------
\* aggregate_signatures_broadcast (main.rs:227-276)
\* ------------------------------------------------------------------------
\* main.rs:231-232: get_mpc_store(1) and the SELECT of get_session
CombineGetSession(client, session_id, db_fail) ==
    LET asked == [Response("combine", 1, session_id, "none") EXCEPT !.loaded_at = now]
        loaded == get_session(get_mpc_store(sessions, 1), session_id, now)
    IN  IF db_fail
        THEN /\ resp' = [asked EXCEPT !.result = "DatabaseError", !.fault = TRUE]
             /\ UNCHANGED <<inflight, combine_attempted>>
        ELSE IF loaded = None
        THEN /\ resp' = [asked EXCEPT !.result = "SessionNotFound"]
             /\ UNCHANGED <<inflight, combine_attempted>>
        ELSE LET session == loaded[1]
                 seen == [asked EXCEPT
                             !.found = TRUE,
                             !.after_submission = WasSubmitted(session_id),
                             !.was_finalized = (session.partial_sig_2 # None)]
             IN  /\ inflight' = inflight \cup
                       {[Activation("combine", client, "get_keys_for_user", seen)
                            EXCEPT !.session = Some(session)]}
                 /\ combine_attempted' = combine_attempted \cup {session_id}
                 /\ UNCHANGED resp

\* combine requests of any caller, while the ledger's log has room and the
\* server has a worker free; the SELECT of get_session is awaited, and can
\* fail, in every call
EnvCombineUpTo(cap) ==
    /\ Ready
    /\ Cardinality(inflight) < MaxInflight
    /\ Len(submitted) < cap
    /\ \E session_id \in RequestSessionIds, db_fail \in BOOLEAN :
          CombineGetSession("env", session_id, db_fail)
    /\ BeginFrame
    /\ UNCHANGED <<next_session, next_nonce, send>>

EnvCombine == EnvCombineUpTo(MaxSubmitted)

\* main.rs:233-242: the SELECT of get_keys_for_user, then node 1's key pair
\* from the first row and the list of the share keys
CombineGetKeys ==
    \E act \in inflight, db_fail \in BOOLEAN :
        /\ Ready
        /\ act.kind = "combine" /\ act.pc = "get_keys_for_user"
        /\ LET session == act.session[1]
               keys_from_db == get_keys_for_user(get_mpc_store(keys, 1),
                                                 session.end_user_pubkey)
           IN  IF db_fail
               THEN /\ resp' = [act.seen EXCEPT !.result = "DatabaseError",
                                                !.fault = TRUE]
                    /\ inflight' = inflight \ {act}
               ELSE IF keys_from_db = <<>>
               THEN /\ resp' = [act.seen EXCEPT !.result = "panic"]
                    /\ inflight' = inflight \ {act}
               ELSE /\ inflight' = (inflight \ {act}) \cup
                          {[act EXCEPT !.pc = "get_latest_blockhash",
                                       !.keypair = Some(KeypairOf(keys_from_db[1])),
                                       !.keys_from_db = keys_from_db]}
                    /\ UNCHANGED resp
        /\ send' = Reply(act.client, resp')
        /\ UNCHANGED <<keys, sessions, main_store, fresh, environment, generating,
                       released, submitted, signed_with, combine_attempted>>

\* main.rs:243-271: the call of the ledger for its latest blockhash, which
\* blocks the worker until it is answered, then node 1's partial signature
\* and the aggregation, up to the submission
CombineSignAndAggregate(act, signature_choice, caller_signature, agg_message_2, rpc_fail) ==
    LET session == act.session[1]
        keypair1 == act.keypair[1]
        pubkeys == PubkeysOf(act.keys_from_db)
        recent_blockhash == blockhash
        secret_state_1 == session.secret_state_1[1]
        agg_pubkey == key_agg(pubkeys)
        to_pubkey == PubkeyFromStr(session.to_address)
        tx == IF session.transaction # None
              THEN session.transaction[1]
              ELSE [message |-> TransferMessage(agg_pubkey, to_pubkey[1],
                                                Lamports(session.amount),
                                                agg_pubkey, recent_blockhash),
                    signatures |-> None]
        signing == step_two(keypair1, tx.message, pubkeys,
                            <<agg_message_2>>, secret_state_1)
        partial_signature_1 == signing.sig
        partial_signature_2 ==
            IF signature_choice # None THEN signature_choice[1]
            ELSE IF caller_signature = "nonce_only"
                 THEN NonceOnlySignature(partial_signature_1.R)
                 ELSE ForgedSignature(partial_signature_1.R)
        final == sign_and_broadcast_transaction(
                     tx, pubkeys, <<partial_signature_1, partial_signature_2>>)
        built == [act.seen EXCEPT !.request_sender = Some(agg_message_2.sender),
                                  !.pubkeys = Some(pubkeys),
                                  !.message = Some(tx.message)]
        signed == [built EXCEPT !.signed = TRUE]
    IN  IF rpc_fail
        THEN /\ resp' = [act.seen EXCEPT !.result = "SolanaClientError",
                                         !.fault = TRUE]
             /\ inflight' = inflight \ {act}
             /\ UNCHANGED signed_with
        ELSE IF session.secret_state_1 = None
        THEN /\ resp' = [act.seen EXCEPT !.result = "panic"]
             /\ inflight' = inflight \ {act}
             /\ UNCHANGED signed_with
        ELSE IF session.transaction = None /\ to_pubkey = None
        THEN /\ resp' = [act.seen EXCEPT !.result = "panic"]
             /\ inflight' = inflight \ {act}
             /\ UNCHANGED signed_with
        ELSE IF ~signing.ok
        THEN /\ resp' = [built EXCEPT !.result = "panic", !.tss = signing.err]
             /\ inflight' = inflight \ {act}
             /\ UNCHANGED signed_with
        ELSE /\ signed_with' = UseNonce(secret_state_1)
             /\ IF ~final.ok
                THEN /\ resp' = [signed EXCEPT !.result = "panic",
                                               !.tss = final.err]
                     /\ inflight' = inflight \ {act}
                ELSE /\ inflight' = (inflight \ {act}) \cup
                           {[act EXCEPT !.pc = "send_and_confirm_transaction",
                                        !.tx = Some(final.tx),
                                        !.seen = [signed EXCEPT !.tss = "Ok"]]}
                     /\ UNCHANGED resp

CombineSign ==
    \E act \in inflight, rpc_fail \in BOOLEAN :
        /\ Ready
        /\ act.kind = "combine" /\ act.pc = "get_latest_blockhash"
        /\ IF rpc_fail
           THEN CombineSignAndAggregate(act, None, "forged", AnyMessage, rpc_fail)
           ELSE \E signature_choice \in CombineSignatures(act),
                   caller_signature \in CallerSignatures,
                   agg_message_2 \in CombineMessages(act) :
                    /\ signature_choice # None => caller_signature = "forged"
                    /\ CombineSignAndAggregate(act, signature_choice,
                                               caller_signature, agg_message_2,
                                               rpc_fail)
        /\ send' = Reply(act.client, resp')
        /\ UNCHANGED <<keys, sessions, main_store, fresh, environment, generating,
                       released, submitted, combine_attempted>>

\* main.rs:273-275: send_and_confirm_transaction, which blocks the worker
\* until the ledger has answered, then the response
CombineFinish ==
    \E act \in inflight, rpc_fail \in BOOLEAN :
        /\ Ready
        /\ act.kind = "combine" /\ act.pc = "send_and_confirm_transaction"
        /\ inflight' = inflight \ {act}
        /\ submitted' = Append(submitted,
                               [message |-> act.tx[1].message,
                                signatures |-> act.tx[1].signatures,
                                session_id |-> act.seen.session_id])
        /\ resp' = IF rpc_fail
                   THEN [act.seen EXCEPT !.result = "SolanaClientError",
                                         !.fault = TRUE]
                   ELSE [act.seen EXCEPT
                            !.result = "Ok",
                            !.transaction_signature = act.tx[1].signatures]
        /\ send' = Reply(act.client, resp')
        /\ UNCHANGED <<keys, sessions, main_store, fresh, environment, generating,
                       released, signed_with, combine_attempted>>

\* ------------------------------------------------------------------------
\* The environment: the clock and the ledger
\* ------------------------------------------------------------------------
\* The clock is read by create_session and get_session only; it is observed
\* every ClockStep minutes, so that a session is seen before and at its expiry.
ClockStep == SessionTtl

Tick ==
    /\ Ready
    /\ now + ClockStep <= MaxTicks * ClockStep
    /\ now' = now + ClockStep
    /\ UNCHANGED <<keys, sessions, main_store, fresh, blockhash, generating,
                   inflight, released, submitted, resp, send, signed_with,
                   combine_attempted>>

NewBlock ==
    /\ Ready
    /\ blockhash < MaxBlockhash
    /\ blockhash' = blockhash + 1
    /\ UNCHANGED <<keys, sessions, main_store, fresh, now, generating,
                   inflight, released, submitted, resp, send, signed_with,
                   combine_attempted>>

Next ==
    \/ GenerateStoreKey1
    \/ GenerateStoreKey2
    \/ GenerateAddPublicKey
    \/ EnvStep1
    \/ Step1Insert
    \/ EnvStep2
    \/ Step2GetKey
    \/ Step2GetKeys
    \/ Step2Sign
    \/ Step2Finish
    \/ EnvCombine
    \/ CombineGetKeys
    \/ CombineSign
    \/ CombineFinish
    \/ Receive
    \/ Tick
    \/ NewBlock

Spec == Init /\ [][Next]_vars

\* ------------------------------------------------------------------------
\* aggregate_keys (main.rs:138-148) and send_single, the handlers that touch
\* no store and no session: they are run on their own, aggregate_keys over
\* every list of up to MaxKeyList share keys
\* ------------------------------------------------------------------------
\* the share keys a caller can name: generated ones and foreign ones
RequestKeys == {SharePub(id) : id \in 0..(2 * MaxUsers + 2)}
RequestKeyLists == UNION {[1..n -> RequestKeys] : n \in 1..MaxKeyList}

AggregateKeys ==
    /\ Ready
    /\ \E pubkeys \in RequestKeyLists, malformed \in BOOLEAN :
          resp' = IF malformed
                  THEN Response("aggregate_keys", 0, 0, "InvalidRequest")
                  ELSE [Response("aggregate_keys", 0, 0, "Ok") EXCEPT
                           !.pubkeys = Some(pubkeys),
                           !.aggregated_pubkey = Some(key_agg(pubkeys))]
    /\ UNCHANGED <<keys, sessions, main_store, fresh, environment, generating,
                   inflight, released, submitted, send, signed_with,
                   combine_attempted>>

\* send_single (main.rs:278-281): answers 200 "Not Implemented"
SendSingle ==
    /\ Ready
    /\ resp' = Response("send_single", 0, 0, "Ok")
    /\ UNCHANGED <<keys, sessions, main_store, fresh, environment, generating,
                   inflight, released, submitted, send, signed_with,
                   combine_attempted>>

NextKeyAgg ==
    \/ AggregateKeys
    \/ SendSingle
    \/ Receive

SpecKeyAgg == Init /\ [][NextKeyAgg]_vars

\* ------------------------------------------------------------------------
\* Repeated combine requests: every handler, the clock and the ledger as in
\* Next, with room for MaxResubmitted submissions on the ledger
\* ------------------------------------------------------------------------
EnvCombineAgain == EnvCombineUpTo(MaxResubmitted)

NextResubmit ==
    \/ GenerateStoreKey1
    \/ GenerateStoreKey2
    \/ GenerateAddPublicKey
    \/ EnvStep1
    \/ Step1Insert
    \/ EnvStep2
    \/ Step2GetKey
    \/ Step2GetKeys
    \/ Step2Sign
    \/ Step2Finish
    \/ EnvCombineAgain
    \/ CombineGetKeys
    \/ CombineSign
    \/ CombineFinish
    \/ Receive
    \/ Tick
    \/ NewBlock

SpecResubmit == Init /\ [][NextResubmit]_vars

\* ------------------------------------------------------------------------
\* Several sessions side by side: every handler, the clock and the ledger as
\* in Next, with room for MaxConcurrentSessions sessions; a step1 request is
\* accepted while fewer than MaxConcurrentCalls calls are suspended,
\* so that a session is created between the steps of a call on another one
\* ------------------------------------------------------------------------
EnvStep1Again == EnvStep1UpTo(MaxConcurrentSessions, MaxConcurrentCalls)

NextSessions ==
    \/ GenerateStoreKey1
    \/ GenerateStoreKey2
    \/ GenerateAddPublicKey
    \/ EnvStep1Again
    \/ Step1Insert
    \/ EnvStep2
    \/ Step2GetKey
    \/ Step2GetKeys
    \/ Step2Sign
    \/ Step2Finish
    \/ EnvCombine
    \/ CombineGetKeys
    \/ CombineSign
    \/ CombineFinish
    \/ Receive
    \/ Tick
    \/ NewBlock

SpecSessions == Init /\ [][NextSessions]_vars

\* ------------------------------------------------------------------------
\* The server left running: the steps of Next, of which one is taken as long
\* as one can be.  main (main.rs:283-320) starts the HTTP server and nothing
\* else, so the handlers are all that ever touches a row.  A suspended call
\* is resumed, and a response is taken, after a finite time; the clock and
\* the ledger go on.
\* ------------------------------------------------------------------------
SpecRunning ==
    Init /\ [][Next]_vars
         /\ WF_vars(Next) /\ WF_vars(Tick) /\ WF_vars(NewBlock)
         /\ WF_vars(GenerateStoreKey2) /\ WF_vars(GenerateAddPublicKey)
         /\ WF_vars(Step1Insert) /\ WF_vars(Step2GetKey)
         /\ WF_vars(Step2GetKeys) /\ WF_vars(Step2Sign)
         /\ WF_vars(Step2Finish) /\ WF_vars(CombineGetKeys)
         /\ WF_vars(CombineSign) /\ WF_vars(CombineFinish)
         /\ WF_vars(Receive)

\* ------------------------------------------------------------------------
\* The backend (src/backend/src/routes): sign_up creates the users that
\* /send and /swap sign for
\* ------------------------------------------------------------------------
SignUpFrame ==
    UNCHANGED <<keys, sessions, next_user, next_session, next_nonce, environment,
                generating, released, submitted, send, signed_with,
                combine_attempted>>

\* sign_up (routes/user.rs:37-51) and create_user (store/user.rs:36-50):
\* Keypair::new, the checks of the email and the password, and the SELECT of
\* get_user_by_email, which fails, or finds the email taken, or finds none;
\* every refusal is answered 500 (routes/user.rs:62)
SignUpGetUserByEmail ==
    \E accepted \in BOOLEAN, db_fail \in BOOLEAN :
        /\ Ready
        /\ accepted => ~db_fail
        /\ Cardinality(inflight) < MaxInflight
        /\ next_signup <= MaxSignUps
        /\ IF accepted
           THEN /\ next_signup' = next_signup + 1
                /\ inflight' = inflight \cup
                      {[Activation("sign_up", "env", "create_user",
                                   Response("sign_up", 0, 0, "none"))
                           EXCEPT !.keypair = Some(SignUpKeypair(next_signup))]}
                /\ UNCHANGED resp
           ELSE /\ resp' = [Response("sign_up", 0, 0, "InternalServerError")
                                EXCEPT !.fault = db_fail]
                /\ UNCHANGED <<next_signup, inflight>>
        /\ UNCHANGED main_store
        /\ SignUpFrame

\* create_user (store/user.rs:52-70): the password hash and the INSERT
SignUpCreateUser ==
    \E act \in inflight, db_fail \in BOOLEAN :
        /\ Ready
        /\ act.kind = "sign_up" /\ act.pc = "create_user"
        /\ IF db_fail
           THEN /\ resp' = [act.seen EXCEPT !.result = "InternalServerError",
                                            !.fault = TRUE]
                /\ inflight' = inflight \ {act}
                /\ UNCHANGED users
           ELSE /\ users' = users \cup {act.keypair[1].public}
                /\ inflight' = (inflight \ {act})
                                   \cup {[act EXCEPT !.pc = "add_public_key"]}
                /\ UNCHANGED resp
        /\ UNCHANGED <<public_keys, next_signup>>
        /\ SignUpFrame

\* sign_up (routes/user.rs:52-60): Store::add_public_key, whose error is
\* logged only, then 201 Created
SignUpAddPublicKey ==
    \E act \in inflight, db_fail \in BOOLEAN :
        /\ Ready
        /\ act.kind = "sign_up" /\ act.pc = "add_public_key"
        /\ inflight' = inflight \ {act}
        /\ public_keys' = IF db_fail THEN public_keys
                          ELSE public_keys \cup {act.keypair[1].public}
        /\ resp' = [act.seen EXCEPT !.result = "Created", !.fault = db_fail]
        /\ UNCHANGED <<users, next_signup>>
        /\ SignUpFrame

\* the whole numbers of lamports that /send is asked to transfer
SendAmounts == {15}

\* the step1 request of a route: /send passes on its own request
\* (solana.rs:226-232), /swap sends placeholders and the transaction that the
\* exchange built (solana.rs:151-157)
Step1Requests(route) ==
    IF route = "swap"
    THEN {[to |-> SystemProgramAddress, amount |-> SolAmount(0, 0),
           memo |-> None, transaction |-> Some(PrebuiltTransaction)]}
    ELSE {[to |-> to, amount |-> SolOfLamports(lamports), memo |-> memo,
           transaction |-> None] :
             to \in ToAddresses, lamports \in SendAmounts, memo \in Memos}

\* what a step of a route that posts nothing leaves alone
RouteFrame ==
    UNCHANGED <<keys, sessions, main_store, fresh, environment, generating,
                inflight, released, submitted, resp, signed_with,
                combine_attempted>>

\* a call of a route begins: the locals of the call before are gone
BeginRoute(route) ==
    [SendIdle EXCEPT !.route = route, !.calls = send.calls + 1]

\* the SELECT of get_user_by_id at the head of /send (solana.rs:220, both
\* unwrapped) and of /swap (solana.rs:126-129); the signed-in user is one of
\* the users rows
GetUserById(route, on_success) ==
    /\ Ready
    /\ send.pc \in {"idle", "failed", "done"}
    /\ \E end_user_pubkey \in users, db_fail \in BOOLEAN :
          send' = IF db_fail
                  THEN [BeginRoute(route) EXCEPT !.pc = "failed", !.fault = TRUE]
                  ELSE [BeginRoute(route) EXCEPT
                           !.pc = on_success,
                           !.end_user_pubkey = Some(end_user_pubkey)]
    /\ RouteFrame

\* /send (solana.rs:220-238): up to the POST of its step1 request
SendGetUser ==
    /\ send.calls < MaxRouteCalls
    /\ GetUserById("send", "step1")

\* /swap (solana.rs:126-131): up to the SELECT of get_quote
SwapGetUser ==
    /\ send.calls < MaxRouteCalls
    /\ GetUserById("swap", "get_quote")

\* /swap (solana.rs:131-144): the SELECT of get_quote, which answers 404
\* when it fails and when it finds no quote; the quotes table is written by
\* /quote only and is not part of the state, so the outcome is chosen
SwapGetQuote ==
    /\ Ready
    /\ send.pc = "get_quote"
    /\ \E found \in BOOLEAN, db_fail \in BOOLEAN :
          /\ found => ~db_fail
          /\ send' = IF found THEN [send EXCEPT !.pc = "swap_transaction"]
                     ELSE [send EXCEPT !.pc = "failed", !.fault = db_fail]
    /\ RouteFrame

\* /swap (solana.rs:144-163): the answer of the exchange, unwrapped, up to
\* the POST of the step1 request
SwapTransaction ==
    /\ Ready
    /\ send.pc = "swap_transaction"
    /\ \E answered \in BOOLEAN :
          send' = [send EXCEPT !.pc = IF answered THEN "step1" ELSE "failed"]
    /\ RouteFrame

\* the route has posted a request: it goes on with the answer when the
\* handler gives it at once, and waits for it otherwise
SendPosted(route) ==
    send' = IF resp'.op # "none" THEN SendAfter(route, resp') ELSE route

\* The requests that a route has posted (solana.rs:159-207, 234-282) reach
\* their handlers: step1 at node 1, step2 at node 2 and combine, each with
\* what the previous answer carried.  A route is suspended at the await of
\* its POST from the step that built the request.
RoutePosts(route) ==
    /\ Ready
    /\ Cardinality(inflight) < MaxInflight
    /\ \E db_fail \in BOOLEAN :
          \/ /\ send.pc = "step1"
             /\ next_session <= MaxSessions
             /\ \E req \in Step1Requests(route) :
                   Step1GetKey(route, 1, send.end_user_pubkey[1], req.to, req.amount,
                               req.memo, req.transaction, db_fail)
             /\ UNCHANGED combine_attempted
          \/ /\ send.pc = "step2"
             /\ Step2GetSession(route, send.session_id, 2, db_fail)
             /\ UNCHANGED <<next_session, next_nonce, combine_attempted>>
          \/ /\ send.pc = "combine"
             /\ CombineGetSession(route, send.session_id, db_fail)
             /\ UNCHANGED <<next_session, next_nonce>>
    /\ SendPosted([send EXCEPT !.pc = "waiting"])
    /\ BeginFrame

\* /send (solana.rs:214-287)
Send ==
    /\ send.route = "send"
    /\ RoutePosts("send")

\* /swap (solana.rs:120-212)
Swap ==
    /\ send.route = "swap"
    /\ RoutePosts("swap")

NextBackend ==
    \/ SignUpGetUserByEmail
    \/ SignUpCreateUser
    \/ SignUpAddPublicKey
    \/ SendGetUser
    \/ Send
    \/ SwapGetUser
    \/ SwapGetQuote
    \/ SwapTransaction
    \/ Swap
    \/ GenerateStoreKey1
    \/ GenerateStoreKey2
    \/ GenerateAddPublicKey
    \/ EnvStep1
    \/ Step1Insert
    \/ EnvStep2
    \/ Step2GetKey
    \/ Step2GetKeys
    \/ Step2Sign
    \/ Step2Finish
    \/ EnvCombine
    \/ CombineGetKeys
    \/ CombineSign
    \/ CombineFinish
    \/ Receive
    \/ Tick
    \/ NewBlock

SpecBackend == Init /\ [][NextBackend]_vars

\* ------------------------------------------------------------------------
\* Vocabulary of the claims
\* ------------------------------------------------------------------------
\* the rows of node n's session table with the given id (at most one)
SessionRows(n, session_id) ==
    IF n \in Nodes THEN {s \in sessions[n] : s.session_id = session_id} ELSE {}

\* the share public key that the other node stores for the user
PeerSharePublic(n, end_user_pubkey) ==
    {k.public_key : k \in {r \in keys[3 - n] : r.end_user_pubkey = end_user_pubkey}}

\* the message a partial signature was computed over
SignedMessage(sig) == sig.R.msg

\* a call that got as far as reading the sender of the peer's round-1 message
SenderWasRead == resp.request_sender # None

\* the sender named in the request is not the peer's share key of the session's user
SenderIsNotPeer(n, peer_store_of) ==
    \A s \in SessionRows(n, resp.session_id) :
        resp.request_sender[1] \notin PeerSharePublic(peer_store_of, s.end_user_pubkey)

\* ------------------------------------------------------------------------
\* Claims
\* ------------------------------------------------------------------------

\* C1: for a user created by generate and a signing intent, the coordinator
\* sequence step1 on node 1, step2 on node 2, combine on node 1 succeeds at
\* every step: a step2 request to node 2 that names the session which step1
\* created on node 1 for a generated user, and that arrives before the
\* session expires and meets no failure of the database, finds the session.
C1_SendRoundTripSucceeds ==
    (resp.op = "step2" /\ resp.node_id = 2 /\ ~resp.fault
        /\ \E s \in sessions[1] : /\ s.session_id = resp.session_id
                                  /\ s.expires_at > resp.loaded_at
                                  /\ s.end_user_pubkey \in public_keys)
       => resp.result # "SessionNotFound"

\* C2: a step2 call on a session whose step2 has already succeeded fails with
\* SessionAlreadyFinalized, whatever agg_message_1 it is given.
C2_SecondStep2IsRejected ==
    (resp.op = "step2" /\ resp.found /\ resp.was_finalized /\ ~resp.fault)
        => resp.result = "SessionAlreadyFinalized"

\* C3: the step2 update takes effect only while the stored partial signature
\* is NULL: a row whose partial_sig_2 is set is never written again, so at
\* most one record_step2 succeeds per session.
C3_AtMostOneRecordStep2 ==
    [][\A n \in Nodes : \A s \in sessions[n] :
          s.partial_sig_2 # None => s \in sessions'[n]]_vars

\* C4: each private nonce set produces at most one partial signature, over at
\* most one message: whatever sequence of step1, step2 and combine is made, no
\* node signs twice with the same private nonces.
C4_NonceSignsOnce ==
    \A n \in 1..MaxNonces : signed_with[n] <= 1

\* C5: the message combine signs is the message step2 signed for the session.
C5_SameMessageInStep2AndCombine ==
    (resp.op = "combine" /\ resp.message # None) =>
        \A s \in SessionRows(1, resp.session_id) :
            s.partial_sig_2 # None =>
                resp.message[1] = SignedMessage(s.partial_sig_2[1])

\* C6: the native-transfer message built by step2 and by combine has the
\* user's aggregate public key as transfer source and as fee payer.
C6_AggregateKeyIsSourceAndPayer ==
    (resp.op \in {"step2", "combine"} /\ resp.message # None) =>
        \A s \in SessionRows(resp.node_id, resp.session_id) :
            s.transaction = None =>
                /\ resp.message[1].from = s.end_user_pubkey
                /\ resp.message[1].payer = s.end_user_pubkey

\* C7: step2 given an agg_message_1 whose sender is not the other node's share
\* key returns MismatchMessages and computes, returns and records no partial
\* signature.
C7_Step2RejectsForeignSender ==
    (resp.op = "step2" /\ SenderWasRead /\ SenderIsNotPeer(resp.node_id, resp.node_id)) =>
        /\ resp.result = "MismatchMessages"
        /\ ~resp.signed
        /\ resp.partial_signature = None

\* C8: combine given an agg_message_2 whose sender is not node 2's share key
\* rejects the request without signing and without submitting.
C8_CombineRejectsForeignSender ==
    (resp.op = "combine" /\ SenderWasRead /\ SenderIsNotPeer(1, 1)) =>
        /\ resp.result # "Ok"
        /\ ~resp.signed
        /\ resp.tss # "Ok"

\* C9: every submitted transaction verifies, and a combine whose aggregation
\* or verification fails returns InvalidSignature without submitting.
C9_InvalidAggregateIsReported ==
    /\ \A i \in 1..Len(submitted) :
          /\ submitted[i].signatures # None
          /\ verify(submitted[i].signatures[1], submitted[i].message.payer,
                    submitted[i].message)
    /\ (resp.op = "combine" /\ resp.tss \in {"MismatchMessages", "InvalidSignature"})
          => (resp.result = "InvalidSignature" /\ resp.transaction_signature = None)

\* C10: only the order step1, step2, combine succeeds: step2 and combine fail on
\* a session step1 has not created, combine fails on a session without recorded
\* step2 data, and step2 fails on a session that combine has taken up.
C10_OnlyTheProtocolOrderSucceeds ==
    /\ (resp.op \in {"step2", "combine"} /\ ~resp.found) => resp.result # "Ok"
    /\ (resp.op = "combine" /\ resp.found /\ ~resp.was_finalized) => resp.result # "Ok"
    /\ (resp.op = "step2" /\ resp.after_combine) => resp.result # "Ok"

\* C11: step1 releases public nonces only after the session holding the
\* matching private nonces is stored: a step1 response that carries public
\* nonces names a session row of the node holding those nonces, a step1 that
\* fails (create_session included) carries none, and a stored row keeps its
\* secret_state_1 ever after.
C11_NoncesStoredBeforeRelease ==
    /\ [](resp.op = "step1" =>
            IF resp.agg_message = None
            THEN resp.result # "Ok"
            ELSE /\ resp.result = "Ok"
                 /\ \E s \in SessionRows(resp.node_id, resp.session_id) :
                       /\ s.secret_state_1 # None
                       /\ s.secret_state_1[1].public_nonces
                             = resp.agg_message[1].public_nonces
                       /\ s.secret_state_1[1].private_nonces.r
                             = resp.agg_message[1].public_nonces.R)
    /\ [][\A n \in Nodes : \A s \in sessions[n] :
             \E t \in sessions'[n] :
                 t.session_id = s.session_id /\ t.secret_state_1 = s.secret_state_1]_vars

\* a step1 response carrying public nonces has been returned
C11_Step1Released ==
    resp.op = "step1" /\ resp.result = "Ok" /\ resp.agg_message # None

\* C12: a session expires SessionTtl minutes after the time at which
\* create_session made it, and get_session, when its SELECT is executed,
\* returns the session if and only if the row exists and expires_at is later
\* than the time of the load; a step2 or combine whose load finds no such row
\* returns SessionNotFound and signs nothing.
C12_LoadIffNotExpired ==
    /\ (resp.op = "step1" /\ resp.result = "Ok") =>
          \A s \in SessionRows(resp.node_id, resp.session_id) :
              s.expires_at = resp.loaded_at + SessionTtl
    /\ (resp.op \in {"step2", "combine"} /\ resp.node_id \in Nodes
           /\ (resp.fault => resp.found)) =>
          /\ resp.found <=> \E s \in SessionRows(resp.node_id, resp.session_id) :
                                 s.expires_at > resp.loaded_at
          /\ ~resp.found => (resp.result = "SessionNotFound" /\ ~resp.signed)

\* step2 or combine was called on an existing session at or after its expiry
C12_LoadAfterExpiry ==
    /\ resp.op \in {"step2", "combine"}
    /\ resp.result = "SessionNotFound"
    /\ \E s \in SessionRows(resp.node_id, resp.session_id) : s.expires_at <= resp.loaded_at

\* C13: once a combine call on a session has reached submission, the session
\* is closed: a later step2 or combine that loads it finds no session,
\* returns SessionNotFound and signs nothing (calls that a failure of the
\* database or the ledger ends are left out).
C13_ClosedAfterSubmission ==
    (resp.op \in {"step2", "combine"} /\ resp.after_submission /\ ~resp.fault) =>
        /\ ~resp.found
        /\ resp.result = "SessionNotFound"
        /\ ~resp.signed

\* C14: a recorded partial signature is never overwritten: every partial
\* signature that a step2 response has released is the one stored in the
\* session's row, also after step2 is replayed with identical inputs.
C14_ReleasedSignatureStaysStored ==
    \A p \in partial_sigs :
        \E n \in Nodes : \E s \in sessions[n] : s.partial_sig_2 = Some(p)

\* the rows that get_session can still return for the session of the response
LiveRows(n, session_id) ==
    {s \in SessionRows(n, session_id) : s.expires_at > now}

\* C15: a step2 or combine that fails with a cryptographic mismatch
\* (MismatchMessages or InvalidSignature) closes the session immediately: when
\* the failure is answered the session can no longer be loaded, so that every
\* later operation on it returns SessionNotFound.
C15_MismatchClosesSession ==
    (resp.op \in {"step2", "combine"}
        /\ resp.tss \in {"MismatchMessages", "InvalidSignature"}) =>
        LiveRows(resp.node_id, resp.session_id) = {}

\* the share public key that node n's store holds for the user
SharePublicAt(n, end_user_pubkey) ==
    {k.public_key : k \in {r \in keys[n] : r.end_user_pubkey = end_user_pubkey
                                            /\ r.node_id = n}}

\* C16: the aggregate key does not diverge: the pubkey list that step2 and
\* combine load from the node's own key store is exactly the user's two share
\* public keys in node_id order, and its aggregate is the end_user_pubkey that
\* generate returned.
C16_AggregateKeyDoesNotDiverge ==
    (resp.op \in {"step2", "combine"} /\ resp.pubkeys # None) =>
        \A s \in SessionRows(resp.node_id, resp.session_id) :
            /\ Len(resp.pubkeys[1]) = 2
            /\ \A n \in Nodes : n <= Len(resp.pubkeys[1]) =>
                  resp.pubkeys[1][n] \in SharePublicAt(n, s.end_user_pubkey)
            /\ key_agg(resp.pubkeys[1]) = s.end_user_pubkey

\* the key shares of a user with the given node_id, over both key stores
SharesOf(end_user_pubkey, n) ==
    {k \in keys[1] \cup keys[2] : k.end_user_pubkey = end_user_pubkey /\ k.node_id = n}

\* C17: after any sequence of generate calls, failed ones included, and
\* while no generate call is under way, every end_user_pubkey present in a
\* key store has exactly two key shares, one with node_id 1 and one with
\* node_id 2, and their public keys aggregate to it.
C17_TwoSharesPerUser ==
    generating = {} =>
    \A u \in {k.end_user_pubkey : k \in keys[1] \cup keys[2]} :
        /\ \A n \in Nodes : Cardinality(SharesOf(u, n)) = 1
        /\ \A k1 \in SharesOf(u, 1) : \A k2 \in SharesOf(u, 2) :
              key_agg(<<k1.public_key, k2.public_key>>) = u

\* C18: no node's key store holds a usable private key: node n's store
\* contains only shares with node_id n, at most one per user, so never both
\* private shares of a user.
C18_NoStoreHoldsBothShares ==
    \A n \in Nodes :
        /\ \A k \in keys[n] : k.node_id = n /\ k.public_key = SharePub(k.private_key)
        /\ \A k1, k2 \in keys[n] :
              k1.end_user_pubkey = k2.end_user_pubkey => k1 = k2

\* generate has written a user's two shares, one to each store
C18_BothSharesWritten ==
    \E k1 \in keys[1], k2 \in keys[2] :
        k1.end_user_pubkey = k2.end_user_pubkey /\ k1.private_key # k2.private_key

\* C19: step1 for an end_user_pubkey that has no key share in the node's key
\* store returns KeyNotFound and returns no session.
C19_Step1WithoutKeyIsKeyNotFound ==
    (resp.op = "step1" /\ resp.key_missing) =>
        (resp.result = "KeyNotFound" /\ resp.session_id = 0)

\* C20: when the caller supplies a prebuilt transaction at step1, that
\* transaction is the session's signing payload: the session row carries it,
\* so that step2 and combine sign its message and combine submits it instead
\* of a native transfer built from the to and amount fields.
C20_PrebuiltTransactionIsThePayload ==
    (resp.op = "step1" /\ resp.result = "Ok" /\ resp.request_transaction # None) =>
        \A s \in SessionRows(resp.node_id, resp.session_id) :
            s.transaction = resp.request_transaction

\* C21: step1 with a prebuilt transaction whose fee payer is not the user's
\* aggregate public key returns InvalidRequest and persists no session.
C21_ForeignFeePayerIsRejected ==
    (resp.op = "step1" /\ resp.request_transaction # None
        /\ \A s \in SessionRows(resp.node_id, resp.session_id) :
              resp.request_transaction[1].message.payer # s.end_user_pubkey) =>
        /\ resp.result = "InvalidRequest"
        /\ SessionRows(resp.node_id, resp.session_id) = {}

\* C22: a malformed destination address is rejected at step1 with
\* InvalidRequest: no session row holds an address that does not parse, and no
\* step2 or combine aborts on a session whose stored address does not parse.
C22_MalformedAddressIsRejected ==
    /\ \A n \in Nodes : \A s \in sessions[n] :
          s.transaction = None => PubkeyFromStr(s.to_address) # None
    /\ (resp.op \in {"step2", "combine"} /\ resp.result = "panic") =>
          \A s \in SessionRows(resp.node_id, resp.session_id) :
              PubkeyFromStr(s.to_address) # None

\* the two lists hold the same keys, each as often, in any order
SameKeys(p, q) ==
    /\ Len(p) = Len(q)
    /\ \A k \in RequestKeys :
          Cardinality({i \in 1..Len(p) : p[i] = k})
              = Cardinality({i \in 1..Len(q) : q[i] = k})

\* C23: key aggregation is deterministic and order-independent: the key
\* that aggregate_keys returns for a list is the aggregate of every
\* reordering of the list, in particular key_agg([P1,P2]) = key_agg([P2,P1]).
C23_KeyAggIsOrderIndependent ==
    (resp.op = "aggregate_keys" /\ resp.result = "Ok") =>
        \A q \in RequestKeyLists :
            SameKeys(q, resp.pubkeys[1]) => key_agg(q) = resp.aggregated_pubkey[1]

\* two different keys were aggregated, given in descending byte order
C23_AggregatedOutOfOrder ==
    /\ resp.op = "aggregate_keys" /\ resp.result = "Ok"
    /\ Len(resp.pubkeys[1]) = 2
    /\ resp.pubkeys[1][1].keys[1] > resp.pubkeys[1][2].keys[1]

\* C24: no session is used after its expiry, even when the expiry falls
\* inside a request: a step2 that loaded the session before expires_at does
\* not record its step2 data or release a partial signature once expires_at
\* has passed, so at every successful step2 answer the session is unexpired.
C24_NoStep2RecordAfterExpiry ==
    (resp.op = "step2" /\ resp.result = "Ok") =>
        \A s \in SessionRows(resp.node_id, resp.session_id) :
            /\ s.expires_at > resp.loaded_at
            /\ s.expires_at > now

\* C26: step2 signs with the nonce set already persisted in the loaded
\* session and generates no new nonces: the private nonces that a step2
\* call passes to partial signing are among those stored in the session row
\* it loaded.
C26_Step2SignsWithStoredNonces ==
    [][\A req \in inflight' \ inflight :
          (req.kind = "step2" /\ req.pc = "update") =>
              \E s \in SessionRows(req.seen.node_id, req.seen.session_id) :
                  Some(req.one[1].secret_state)
                      \in {s.secret_state_1, s.secret_state_2}]_vars

\* the public nonces that belong to the private nonces inside a partial signature
PublicNoncesOf(sig) == {[R |-> sig.s.rs[i]] : i \in 1..Len(sig.s.rs)}

\* C27: the agg_message_2 that step2 returns carries the responding node's
\* own share public key and exactly the public nonces that belong to the
\* private nonces used for the partial signature of the same response.
C27_Step2MessageMatchesSignature ==
    (resp.op = "step2" /\ resp.result = "Ok") =>
        /\ \A s \in SessionRows(resp.node_id, resp.session_id) :
              SharePublicAt(resp.node_id, s.end_user_pubkey)
                  = {resp.agg_message[1].sender}
        /\ PublicNoncesOf(resp.partial_signature[1])
              = {resp.agg_message[1].public_nonces}

\* a step2 call has answered with a partial signature and its round-1 message
C27_Step2Answered ==
    /\ resp.op = "step2" /\ resp.result = "Ok"
    /\ resp.partial_signature # None /\ resp.agg_message # None
    /\ SessionRows(resp.node_id, resp.session_id) # {}

\* C25: for every session, across any interleaving of repeated combine
\* requests, the chain submitter is called at most once: the ledger receives
\* at most one signed transaction per session.
C25_OneSubmissionPerSession ==
    \A i \in 1..Len(submitted) : \A j \in 1..Len(submitted) :
        submitted[i].session_id = submitted[j].session_id => i = j

\* C28: a step2 call that returns an error (session absent or expired, key
\* missing, ledger RPC failure, database failure) leaves every session row
\* and every key row unchanged and releases no partial signature; the part
\* of a call before its UPDATE changes no row either.
C28_FailedStep2ChangesNothing ==
    [][/\ (resp' # resp /\ resp'.op = "step2" /\ resp'.result # "Ok") =>
             /\ sessions' = sessions
             /\ keys' = keys
             /\ resp'.partial_signature = None
             /\ partial_sigs' = partial_sigs
       /\ (\E req \in inflight' \ inflight : req.kind = "step2")
             => (sessions' = sessions /\ keys' = keys)]_vars

\* a step2 call that had signed failed at its UPDATE
C28_Step2FailedAtUpdate ==
    /\ resp.op = "step2" /\ resp.result = "DatabaseError"
    /\ resp.signed /\ resp.fault
    /\ SessionRows(resp.node_id, resp.session_id) # {}

\* the signing intent of a session row and what step1 fixed with it
Intent(s) ==
    [session_id |-> s.session_id, end_user_pubkey |-> s.end_user_pubkey,
     to_address |-> s.to_address, amount |-> s.amount, memo |-> s.memo,
     transaction |-> s.transaction, secret_state_1 |-> s.secret_state_1,
     expires_at |-> s.expires_at]

\* C29: the signing intent of a session is immutable after step1: no
\* operation changes the end_user_pubkey, to_address, amount, memo,
\* transaction, first-round secret nonces or expires_at of an existing row;
\* recording step2 changes only the step2 fields.
C29_IntentIsImmutable ==
    [][\A n \in Nodes : \A s \in sessions[n] :
          {Intent(t) : t \in {u \in sessions'[n] : u.session_id = s.session_id}}
              = {Intent(s)}]_vars

\* step2 data was recorded in a session row
C29_Step2Recorded ==
    \E n \in Nodes : \E s \in sessions[n] :
        s.secret_state_2 # None /\ s.partial_sig_2 # None /\ s.agg_message_2 # None

\* the private nonces that a session row stores
StoredNonces(s) ==
    {st[1].private_nonces.r : st \in {s.secret_state_1, s.secret_state_2} \ {None}}

\* C30: sessions are independent: every step1 creates a new row whose
\* session_id no existing session has and whose nonces are fresh, and a
\* step1, step2 or combine on one session never changes the row of another
\* session nor signs with the nonces of another session's row, also for
\* sessions of the same user, under any interleaving.
C30_SessionsAreIndependent ==
    [][/\ \A n \in Nodes : \A t \in sessions'[n] \ sessions[n] :
             \/ /\ \A m \in Nodes : \A s \in sessions[m] :
                       /\ s.session_id # t.session_id
                       /\ StoredNonces(s) \cap StoredNonces(t) = {}
                /\ resp'.op = "step1" /\ resp'.session_id = t.session_id
             \/ /\ resp'.op = "step2" /\ resp'.node_id = n
                /\ resp'.session_id = t.session_id
                /\ \E s \in sessions[n] : s.session_id = t.session_id
       /\ \A n \in Nodes : \A s \in sessions[n] :
             \/ s \in sessions'[n]
             \/ resp'.op = "step2" /\ resp'.node_id = n
                    /\ resp'.session_id = s.session_id
       /\ (resp' # resp /\ resp'.op = "combine") =>
             \A k \in DOMAIN signed_with :
                 signed_with'[k] # signed_with[k] =>
                     \E s \in SessionRows(1, resp'.session_id) :
                         s.secret_state_1 # None
                             /\ s.secret_state_1[1].private_nonces.r = k]_vars

\* two sessions lie in one store, and a step2 call has just recorded its data
\* in one of them; the other one was created after the call had loaded its
\* row, while the call was suspended
C30_OneOfTwoSessionsRecorded ==
    \E n \in Nodes : \E s \in sessions[n] : \E t \in sessions[n] :
        /\ s.session_id # t.session_id
        /\ s.partial_sig_2 # None
        /\ t.partial_sig_2 = None
        /\ resp.op = "step2" /\ resp.result = "Ok" /\ resp.node_id = n
        /\ resp.session_id = s.session_id
        /\ resp.loaded_at + SessionTtl < t.expires_at

\* C31: every expired session is eventually deleted by a background sweeper,
\* also while a signing request that loaded the session is still in flight:
\* whenever a store holds an expired row, later it holds none.
C31_ExpiredSessionsAreSwept ==
    (\E n \in Nodes : \E s \in sessions[n] : s.expires_at <= now)
        ~> (\A n \in Nodes : \A s \in sessions[n] : s.expires_at > now)

\* a round-1 message as it is serialised: AggMessage1 { sender, public_nonces }
IsAggMessage1(m) ==
    /\ DOMAIN m = {"sender", "public_nonces"}
    /\ DOMAIN m.public_nonces = {"R"}

\* the nodes whose share key signs the round-1 messages that announce nonce k
ProducersOf(k) ==
    {n \in Nodes : \E m \in agg_messages : \E key \in keys[n] :
        m.public_nonces.R = k /\ key.node_id = n /\ key.public_key = m.sender}

\* C32: private nonces never leave the node that produced them: the round-1
\* message of every step1 and step2 response holds the sender key and the
\* public nonces only, a combine response holds no message at all, and the
\* private nonces of a session row lie in the store of the node that produced
\* them and in no other store.
C32_PrivateNoncesStayOnTheNode ==
    /\ resp.agg_message # None => IsAggMessage1(resp.agg_message[1])
    /\ \A m \in agg_messages : IsAggMessage1(m)
    /\ resp.op = "combine" => (resp.agg_message = None /\ resp.partial_signature = None)
    /\ resp.op = "step1" => resp.partial_signature = None
    /\ \A n \in Nodes : \A s \in sessions[n] : \A k \in StoredNonces(s) :
          /\ ProducersOf(k) \subseteq {n}
          /\ \A t \in sessions[3 - n] : k \notin StoredNonces(t)

\* step2 has answered, and both stores hold private nonces of their own
C32_BothNodesHoldNonces ==
    /\ resp.op = "step2" /\ resp.result = "Ok" /\ resp.agg_message # None
    /\ \A n \in Nodes : \E s \in sessions[n] : StoredNonces(s) # {}

\* C33: the signing steps use one node's state each.  step1 and step2 read
\* and write only the key store and session store that the request's node_id
\* selects, and a node_id outside {1,2} is answered InvalidRequest and changes
\* nothing; combine reads node 1's stores only and writes none; generate is
\* the only operation that writes to the stores of both nodes.
C33_OneNodePerSigningStep ==
    [][/\ (resp' # resp /\ resp'.op \in {"step1", "step2"}) =>
             IF resp'.node_id \in Nodes
             THEN /\ sessions'[3 - resp'.node_id] = sessions[3 - resp'.node_id]
                  /\ keys' = keys
                  /\ \A t \in sessions'[resp'.node_id] \ sessions[resp'.node_id] :
                        SharePublicAt(resp'.node_id, t.end_user_pubkey) # {}
             ELSE /\ resp'.result = "InvalidRequest"
                  /\ sessions' = sessions /\ keys' = keys
       /\ (resp' # resp /\ resp'.op = "step2" /\ resp'.node_id \in Nodes
              /\ (resp'.fault => resp'.found)) =>
             (resp'.found <=> \E s \in SessionRows(resp'.node_id, resp'.session_id) :
                                  s.expires_at > resp'.loaded_at)
       /\ (resp' # resp /\ resp'.op = "combine") =>
             /\ sessions' = sessions /\ keys' = keys
             /\ (resp'.fault => resp'.found) =>
                   (resp'.found <=> \E s \in SessionRows(1, resp'.session_id) :
                                       s.expires_at > resp'.loaded_at)
       /\ (inflight' \ inflight # {}) => (sessions' = sessions /\ keys' = keys)
       /\ (keys' # keys) => generating' # generating
       /\ sessions'[1] = sessions[1] \/ sessions'[2] = sessions[2]]_vars

\* step2 was asked of node 2 for a session that only node 1's store holds
C33_Step2AtTheOtherNode ==
    /\ resp.op = "step2" /\ resp.node_id = 2 /\ resp.result = "SessionNotFound"
    /\ \E s \in sessions[1] : s.session_id = resp.session_id /\ s.expires_at > now
    /\ SessionRows(2, resp.session_id) = {}

====
